---- MODULE Spec2Model ----
(***************************************************************************)
(* Model of the gosshclient SSHClient (the Connection/Session Manager):    *)
(* Dial / DialContext, ExecScript, Shell and Close, the cancellation       *)
(* watcher goroutine spawned by getClient and the resize worker goroutine  *)
(* spawned by Shell.  The caller is one goroutine with a program counter;  *)
(* every step is the code between two calls into a collaborator (dialer,   *)
(* ssh protocol engine, terminal, signal package).  Collaborator outcomes  *)
(* are chosen nondeterministically.                                        *)
(***************************************************************************)
EXTENDS Integers, FiniteSets, Sequences, TLC

\* ---- bounds -------------------------------------------------------------
MaxDials == 2      \* transport dial attempts (each gets its own context)
MaxCalls == 3      \* calls of the public API made by the caller
MaxSignals == 1    \* SIGWINCH deliveries
MaxDecls == 2      \* declarations in AddEnv's env argument
MaxValLen == 1     \* characters of the value of a NAME=VALUE declaration

\* ---- values -------------------------------------------------------------
Nil == 0                       \* a nil *ssh.Client / *ssh.Session
Conns == 1..MaxDials           \* the raw connections (one per dial attempt)
DialOps == {"Dial", "DialContext"}
ExecOps == {"ExecScript", "Shell"}
Outcome == {"ok", "err"}

VARIABLES
  client,      \* s.client: Nil or the connection the ssh.Client runs on
  session,     \* s.session: Nil or the connection the session runs on
  started,     \* the session's remote shell was started (session.Shell ok)
  done,        \* s.done is closed
  doneCloses,  \* number of times close(s.done) was executed
  conn,        \* raw net.Conn per dial attempt: "none" | "open" | "closed"
  ctx,         \* context of the dial attempt: "none" | "background" | "live" | "cancelled"
  hang,        \* the peer never answers the handshake of this connection
  watcher,     \* the goroutine of getClient, per connection
  tdCloses,    \* client.Close() invocations (teardown path), per connection
  wCloses,     \* conn.Close() invocations by the watcher, per connection
  wAfterTd,    \* the watcher closed the connection after teardown closed it
  nextConn,    \* number of dial attempts made so far
  cur,         \* connection of the dial in progress
  pc,          \* position of the caller
  op,          \* the API call in progress, or the last one when pc = "idle"
  prevOp,      \* the API call before op
  pre,         \* lifecycle state when op was called
  preConsumed, \* execReturned when op was called
  res,         \* result of op: "pending" | "ok" | "err" | "notconnected"
  closeCaller, \* who runs Close: "user" | "dial" | "exec"
  closeRes,    \* result of the Close run by op ("none" when none returned)
  bodyErr,     \* the error ExecScript/Shell returns from its body
  rawMode,     \* the local terminal is in raw mode
  callIO,      \* collaborator calls made by op
  calls,       \* number of API calls made
  execReturned,\* an execution operation has returned on a Connected Manager
               \* and Dial/DialContext was not called since
  closedOnce,  \* an execution operation or a Close by the caller has returned
  sigChan,     \* Shell's sigChan: "none" | "open" | "closed"
  sigQ,        \* notifications buffered in sigChan (capacity 1)
  staleNotify, \* a closed sigChan is still registered with signal.Notify
  worker,      \* resize goroutine: "none" | "ranging" | "handling" | "exited"
  workers,     \* number of resize goroutines spawned by op
  sigs,        \* SIGWINCH delivered so far
  panic,       \* the process aborted: "none" or the cause
  dialErr,     \* the errors named in the error dial returned after its cleanup
  envIn,       \* AddEnv: the env argument, a list of declarations
  envScript,   \* AddEnv: the script argument
  envI,        \* AddEnv: declarations the loop has gone through
  envBlob,     \* AddEnv: envBlob
  envLines,    \* AddEnv: the lines appended to envBlob, one per iteration
  envOut,      \* AddEnv: the returned string
  envErr,      \* AddEnv: the returned error: "none" | "nil" | "invalid"
  envPc        \* AddEnv: "idle" | "loop" | "returned" | "panicked"

vars == <<client, session, started, done, doneCloses, conn, ctx, hang, watcher,
          tdCloses, wCloses, wAfterTd, nextConn, cur, pc, op, prevOp, pre,
          preConsumed, res, closeCaller, closeRes, bodyErr, rawMode, callIO,
          calls, execReturned, closedOnce, sigChan, sigQ, staleNotify, worker,
          workers, sigs, panic, dialErr, envIn, envScript, envI, envBlob,
          envLines, envOut, envErr, envPc>>

mgrVars == <<client, session, started>>
connVars == <<conn, ctx, hang, watcher, tdCloses, wCloses, wAfterTd, nextConn, cur>>
shellVars == <<sigChan, sigQ, staleNotify, worker, workers, sigs, rawMode>>
doneVars == <<done, doneCloses>>
histVars == <<execReturned, closedOnce>>
callVars == <<op, prevOp, pre, preConsumed, calls>>
envVars == <<envIn, envScript, envI, envBlob, envLines, envOut, envErr, envPc>>
sshVars == <<client, session, started, done, doneCloses, conn, ctx, hang, watcher,
             tdCloses, wCloses, wAfterTd, nextConn, cur, pc, op, prevOp, pre,
             preConsumed, res, closeCaller, closeRes, bodyErr, rawMode, callIO,
             calls, execReturned, closedOnce, sigChan, sigQ, staleNotify,
             worker, workers, sigs, panic, dialErr>>

Alive == panic = "none"

\* NewSSHClient: no client, no session, a fresh open done channel.
MgrInit ==
  /\ client = Nil /\ session = Nil /\ started = FALSE
  /\ done = FALSE /\ doneCloses = 0
  /\ conn = [c \in Conns |-> "none"]
  /\ ctx = [c \in Conns |-> "none"]
  /\ hang = [c \in Conns |-> FALSE]
  /\ watcher = [c \in Conns |-> "none"]
  /\ tdCloses = [c \in Conns |-> 0]
  /\ wCloses = [c \in Conns |-> 0]
  /\ wAfterTd = [c \in Conns |-> FALSE]
  /\ nextConn = 0 /\ cur = 0
  /\ pc = "idle" /\ op = "none" /\ prevOp = "none" /\ pre = "Unconnected"
  /\ preConsumed = FALSE /\ res = "none"
  /\ closeCaller = "none" /\ closeRes = "none" /\ bodyErr = "none"
  /\ rawMode = FALSE /\ callIO = {} /\ calls = 0
  /\ execReturned = FALSE /\ closedOnce = FALSE
  /\ sigChan = "none" /\ sigQ = 0 /\ staleNotify = FALSE
  /\ worker = "none" /\ workers = 0 /\ sigs = 0
  /\ panic = "none"
  /\ dialErr = {}

\* AddEnv is not running.
EnvIdle ==
  /\ envIn = <<>> /\ envScript = <<>> /\ envI = 0 /\ envBlob = <<>>
  /\ envLines = <<>> /\ envOut = <<>> /\ envErr = "none" /\ envPc = "idle"

Init == MgrInit /\ EnvIdle

\* The lifecycle state of the Manager as the caller sees it.
LifeState ==
  IF client # Nil /\ session # Nil THEN "Connected"
  ELSE IF closedOnce THEN "Closed"
  ELSE IF client = Nil /\ session = Nil THEN "Unconnected"
  ELSE "Partial"

\* mustBeConnected
mustBeConnectedInverted ==
  IF session # Nil \/ client # Nil THEN "notconnected" ELSE "ok"

mustBeConnected ==
  IF session = Nil \/ client = Nil THEN "notconnected" ELSE "ok"

\* Bookkeeping of a new API call o by the caller.
BeginCall(o) ==
  /\ Alive /\ pc = "idle" /\ calls < MaxCalls
  /\ op' = o /\ prevOp' = op /\ pre' = LifeState
  /\ preConsumed' = execReturned
  /\ calls' = calls + 1

\* Where Close starts, given the handles it finds.
ClosePcClientFirst(sess, cli) ==
  IF cli # Nil THEN "close_client"
  ELSE IF sess # Nil THEN "close_wait"
  ELSE "close_defer"

ClosePc(sess, cli) ==
  IF sess # Nil THEN "close_wait"
  ELSE IF cli # Nil THEN "close_client"
  ELSE "close_defer"

\* ---- Dial / DialContext -------------------------------------------------

\* Where dial goes first: getClient returns at once when a client exists,
\* and getSession returns at once when a session exists.
DialEntryAlwaysDials == "dial_tcp"

DialEntry ==
  IF client # Nil
    THEN IF session # Nil THEN "idle" ELSE "dial_sess"
    ELSE "dial_tcp"

\* Dial / DialContext is called: dial's tests before the first collaborator call.
CallDial(o) ==
  /\ BeginCall(o)
  /\ callIO' = {} /\ closeRes' = "none" /\ bodyErr' = "none"
  /\ pc' = DialEntry
  /\ res' = IF DialEntry = "idle" THEN "ok" ELSE "pending"
  /\ IF DialEntry = "dial_tcp"
       THEN /\ nextConn < MaxDials
            /\ nextConn' = nextConn + 1
            /\ cur' = nextConn + 1
            /\ ctx' = [ctx EXCEPT ![nextConn + 1] =
                         IF o = "Dial" THEN "background" ELSE "live"]
            /\ UNCHANGED <<conn, hang, watcher, tdCloses, wCloses, wAfterTd>>
       ELSE UNCHANGED connVars
  /\ execReturned' = FALSE
  /\ UNCHANGED <<mgrVars, doneVars, closeCaller, closedOnce, shellVars, panic>>
  /\ UNCHANGED <<dialErr, envVars>>

\* d.DialContext(ctx, "tcp", hostPort), then the watcher goroutine is spawned.
DialTcp ==
  /\ Alive /\ pc = "dial_tcp"
  /\ callIO' = callIO \cup {"dial"}
  /\ \E r \in Outcome :
       /\ (ctx[cur] = "cancelled") => (r = "err")
       /\ IF r = "ok"
            THEN /\ conn' = [conn EXCEPT ![cur] = "open"]
                 /\ watcher' = [watcher EXCEPT ![cur] = "spawned"]
                 /\ \E h \in BOOLEAN : hang' = [hang EXCEPT ![cur] = h]
                 /\ pc' = "dial_hs" /\ res' = "pending"
            ELSE /\ pc' = "idle" /\ res' = "err"
                 /\ UNCHANGED <<conn, watcher, hang>>
  /\ UNCHANGED <<mgrVars, doneVars, ctx, tdCloses, wCloses, wAfterTd, nextConn,
                 cur, callVars, closeCaller, closeRes, bodyErr, histVars,
                 shellVars, panic>>
  /\ UNCHANGED <<dialErr, envVars>>

\* ssh.NewClientConn(conn, ...): blocks while the peer hangs and the
\* connection is open; fails once the connection is closed.  What the engine
\* does to the connection when the handshake fails is not recorded.
DialHandshake ==
  /\ Alive /\ pc = "dial_hs"
  /\ (~hang[cur]) \/ conn[cur] = "closed"
  /\ callIO' = callIO \cup {"handshake"}
  /\ \E r \in Outcome :
       /\ (conn[cur] = "closed") => (r = "err")
       /\ IF r = "ok"
            THEN /\ client' = cur
                 /\ IF session # Nil
                      THEN pc' = "idle" /\ res' = "ok"
                      ELSE pc' = "dial_sess" /\ res' = "pending"
            ELSE /\ pc' = "idle" /\ res' = "err"
                 /\ UNCHANGED client
  /\ UNCHANGED <<session, started, doneVars, connVars, callVars, closeCaller,
                 closeRes, bodyErr, histVars, shellVars, panic>>
  /\ UNCHANGED <<dialErr, envVars>>

\* getSession: s.client.NewSession(); on failure dial runs Close.
DialSession ==
  /\ Alive /\ pc = "dial_sess"
  /\ callIO' = callIO \cup {"newsession"}
  /\ \E r \in Outcome :
       /\ (conn[client] = "closed") => (r = "err")
       /\ IF r = "ok"
            THEN /\ session' = client /\ started' = FALSE
                 /\ pc' = "idle" /\ res' = "ok"
                 /\ UNCHANGED closeCaller
            ELSE /\ closeCaller' = "dial"
                 /\ pc' = ClosePc(session, client) /\ res' = "pending"
                 /\ UNCHANGED <<session, started>>
  /\ UNCHANGED <<client, doneVars, connVars, callVars, closeRes, bodyErr,
                 histVars, shellVars, panic>>
  /\ UNCHANGED <<dialErr, envVars>>

\* ---- the cancellation watcher (goroutine of getClient) ------------------

\* The goroutine starts: leaves at once for a context that never cancels,
\* otherwise evaluates the select; with no case ready it parks.
WatcherStart(c) ==
  /\ Alive /\ watcher[c] = "spawned"
  /\ \E w \in {"exited", "wake_ctx", "wake_done", "parked"} :
       /\ w = "exited" <=> ctx[c] = "background"
       /\ w = "wake_ctx" => ctx[c] = "cancelled"
       /\ w = "wake_done" => done
       /\ w = "parked" => (ctx[c] = "live" /\ ~done)
       /\ watcher' = [watcher EXCEPT ![c] = w]
  /\ UNCHANGED <<mgrVars, doneVars, conn, ctx, hang, tdCloses, wCloses,
                 wAfterTd, nextConn, cur, pc, callVars, res, closeCaller,
                 closeRes, bodyErr, callIO, histVars, shellVars, panic>>
  /\ UNCHANGED <<dialErr, envVars>>

\* case <-ctx.Done(): conn.Close()
WatcherCloseConn(c) ==
  /\ Alive /\ watcher[c] = "wake_ctx"
  /\ conn' = [conn EXCEPT ![c] = "closed"]
  /\ wCloses' = [wCloses EXCEPT ![c] = @ + 1]
  /\ wAfterTd' = [wAfterTd EXCEPT ![c] = @ \/ tdCloses[c] > 0]
  /\ watcher' = [watcher EXCEPT ![c] = "exited"]
  /\ UNCHANGED <<mgrVars, doneVars, ctx, hang, tdCloses, nextConn, cur, pc,
                 callVars, res, closeCaller, closeRes, bodyErr, callIO,
                 histVars, shellVars, panic>>
  /\ UNCHANGED <<dialErr, envVars>>

\* case <-s.done:
WatcherQuit(c) ==
  /\ Alive /\ watcher[c] = "wake_done"
  /\ watcher' = [watcher EXCEPT ![c] = "exited"]
  /\ UNCHANGED <<mgrVars, doneVars, conn, ctx, hang, tdCloses, wCloses,
                 wAfterTd, nextConn, cur, pc, callVars, res, closeCaller,
                 closeRes, bodyErr, callIO, histVars, shellVars, panic>>
  /\ UNCHANGED <<dialErr, envVars>>

\* The caller's context is cancelled; a parked watcher is woken by it.
Cancel(c) ==
  /\ Alive /\ ctx[c] = "live"
  /\ ctx' = [ctx EXCEPT ![c] = "cancelled"]
  /\ watcher' = [watcher EXCEPT ![c] = IF @ = "parked" THEN "wake_ctx" ELSE @]
  /\ UNCHANGED <<mgrVars, doneVars, conn, hang, tdCloses, wCloses, wAfterTd,
                 nextConn, cur, pc, callVars, res, closeCaller, closeRes,
                 bodyErr, callIO, histVars, shellVars, panic>>
  /\ UNCHANGED <<dialErr, envVars>>

\* The caller is inside Close.
InClose == pc \in {"close_wait", "close_client", "close_defer"}

\* ---- Close --------------------------------------------------------------

\* The deferred function of Close: close(s.done) unless it is closed already.
DeferCloseDoneUnguarded == doneCloses + 1

DeferCloseDone == IF done THEN doneCloses ELSE doneCloses + 1

\* What ExecScript/Shell return: `defer s.Close()` drops Close's result.
ExecReturnPropagating(body, closeResult) ==
  IF body = "ok" /\ closeResult = "err" THEN "err" ELSE body

ExecReturn(body, closeResult) == body

\* The error dial returns when getSession failed (the cleanup branch):
\* "session error: %v, cleanup error: %v" or "session error: %v".
DialErrorDropsSession(closeResult) ==
  IF closeResult = "err" THEN {"cleanup"} ELSE {"session"}

DialError(closeResult) ==
  IF closeResult = "err" THEN {"session", "cleanup"} ELSE {"session"}

\* Close called by the caller.
CallClose ==
  /\ BeginCall("Close")
  /\ callIO' = {} /\ closeRes' = "none" /\ bodyErr' = "none"
  /\ closeCaller' = "user"
  /\ pc' = ClosePc(session, client) /\ res' = "pending"
  /\ UNCHANGED <<mgrVars, doneVars, connVars, histVars, shellVars, panic>>
  /\ UNCHANGED <<dialErr, envVars>>

\* if s.session != nil { if err := s.session.Wait(); err != nil { return err }; s.session = nil }
\* Wait's result is the protocol engine's: either outcome, also for a session
\* whose shell was never started.
CloseWait ==
  /\ Alive /\ pc = "close_wait"
  /\ callIO' = callIO \cup {"wait"}
  /\ \E r \in Outcome :
       IF r = "ok"
         THEN /\ session' = Nil
              /\ pc' = ClosePc(Nil, client)
              /\ UNCHANGED closeRes
         ELSE /\ closeRes' = "err"
              /\ pc' = "close_defer"
              /\ UNCHANGED session
  /\ UNCHANGED <<client, started, doneVars, connVars, callVars, res,
                 closeCaller, bodyErr, histVars, shellVars, panic>>
  /\ UNCHANGED <<dialErr, envVars>>

\* if s.client != nil { if err := s.client.Close(); err != nil { return err }; s.client = nil }
CloseClient ==
  /\ Alive /\ pc = "close_client"
  /\ callIO' = callIO \cup {"clientclose"}
  /\ conn' = [conn EXCEPT ![client] = "closed"]
  /\ tdCloses' = [tdCloses EXCEPT ![client] = @ + 1]
  /\ \E r \in Outcome :
       IF r = "ok"
         THEN client' = Nil /\ UNCHANGED closeRes
         ELSE closeRes' = "err" /\ UNCHANGED client
  /\ pc' = "close_defer"
  /\ UNCHANGED <<session, started, doneVars, ctx, hang, watcher, wCloses,
                 wAfterTd, nextConn, cur, callVars, res, closeCaller, bodyErr,
                 histVars, shellVars, panic>>
  /\ UNCHANGED <<dialErr, envVars>>

\* The deferred function runs, Close returns, and so does the function that
\* called it (dial's error return, or ExecScript/Shell whose last deferred
\* call it is).
CloseDefer ==
  /\ Alive /\ pc = "close_defer"
  /\ done' = TRUE
  /\ doneCloses' = DeferCloseDone
  /\ watcher' = [c \in Conns |->
                   IF ~done /\ watcher[c] = "parked" THEN "wake_done" ELSE watcher[c]]
  /\ closeRes' = IF closeRes = "err" THEN "err" ELSE "ok"
  /\ pc' = "idle"
  /\ CASE closeCaller = "user" ->
            /\ res' = closeRes'
            /\ closedOnce' = TRUE
            /\ UNCHANGED execReturned
       [] closeCaller = "dial" ->
            /\ res' = "err"
            /\ UNCHANGED histVars
       [] closeCaller = "exec" ->
            /\ res' = ExecReturn(bodyErr, closeRes')
            /\ closedOnce' = TRUE
            /\ execReturned' = TRUE
  /\ UNCHANGED <<mgrVars, conn, ctx, hang, tdCloses, wCloses, wAfterTd,
                 nextConn, cur, callVars, closeCaller, bodyErr, callIO,
                 shellVars, panic>>
  /\ dialErr' = IF closeCaller = "dial" THEN DialError(closeRes') ELSE dialErr
  /\ UNCHANGED envVars

\* ---- ExecScript ---------------------------------------------------------

\* An error return of the body of ExecScript/Shell: the deferred Close runs.
BodyReturns(e, sess) ==
  /\ bodyErr' = e
  /\ closeCaller' = "exec"
  /\ pc' = ClosePc(sess, client)

CallExecScript ==
  /\ BeginCall("ExecScript")
  /\ callIO' = {} /\ closeRes' = "none" /\ bodyErr' = "none"
  /\ IF mustBeConnected = "ok"
       THEN pc' = "exec_pipe" /\ res' = "pending"
       ELSE pc' = "idle" /\ res' = "notconnected"
  /\ UNCHANGED <<mgrVars, doneVars, connVars, closeCaller, histVars,
                 shellVars, panic>>
  /\ UNCHANGED <<dialErr, envVars>>

\* inp, err := s.stdinPipe()
ExecPipe ==
  /\ Alive /\ pc = "exec_pipe"
  /\ callIO' = callIO \cup {"stdinpipe"}
  /\ \E r \in Outcome :
       IF r = "ok"
         THEN pc' = "exec_shell" /\ UNCHANGED <<bodyErr, closeCaller>>
         ELSE BodyReturns("err", session)
  /\ UNCHANGED <<mgrVars, doneVars, connVars, callVars, res, closeRes,
                 histVars, shellVars, panic>>
  /\ UNCHANGED <<dialErr, envVars>>

\* s.session.Shell()
ExecShell ==
  /\ Alive /\ pc = "exec_shell"
  /\ callIO' = callIO \cup {"shell"}
  /\ \E r \in Outcome :
       IF r = "ok"
         THEN started' = TRUE /\ pc' = "exec_write"
              /\ UNCHANGED <<bodyErr, closeCaller>>
         ELSE BodyReturns("err", session) /\ UNCHANGED started
  /\ UNCHANGED <<client, session, doneVars, connVars, callVars, res, closeRes,
                 histVars, shellVars, panic>>
  /\ UNCHANGED <<dialErr, envVars>>

\* fmt.Fprintln(inp, script)
ExecWrite ==
  /\ Alive /\ pc = "exec_write"
  /\ callIO' = callIO \cup {"write"}
  /\ \E r \in Outcome :
       IF r = "ok"
         THEN pc' = "exec_wait" /\ UNCHANGED <<bodyErr, closeCaller>>
         ELSE BodyReturns("err", session)
  /\ UNCHANGED <<mgrVars, doneVars, connVars, callVars, res, closeRes,
                 histVars, shellVars, panic>>
  /\ UNCHANGED <<dialErr, envVars>>

\* inp.Close(); err = s.session.Wait(); s.session = nil; return err
ExecWait ==
  /\ Alive /\ pc = "exec_wait"
  /\ callIO' = callIO \cup {"wait"}
  /\ session' = Nil
  /\ \E r \in Outcome : BodyReturns(r, Nil)
  /\ UNCHANGED <<client, started, doneVars, connVars, callVars, res, closeRes,
                 histVars, shellVars, panic>>
  /\ UNCHANGED <<dialErr, envVars>>

\* ---- Shell --------------------------------------------------------------

\* A return of Shell's body once raw mode was entered: the deferred
\* terminal.Restore runs first, then the deferred Close.
ShellReturns(e) ==
  /\ bodyErr' = e
  /\ pc' = "sh_restore"

CallShell ==
  /\ BeginCall("Shell")
  /\ callIO' = {} /\ closeRes' = "none" /\ bodyErr' = "none"
  /\ workers' = 0
  /\ IF mustBeConnected = "ok"
       THEN pc' = "sh_raw" /\ res' = "pending"
       ELSE pc' = "idle" /\ res' = "notconnected"
  /\ UNCHANGED <<mgrVars, doneVars, connVars, closeCaller, histVars, sigChan,
                 sigQ, staleNotify, worker, sigs, rawMode, panic>>
  /\ UNCHANGED <<dialErr, envVars>>

\* state, err := terminal.MakeRaw(fd)
ShMakeRaw ==
  /\ Alive /\ pc = "sh_raw"
  /\ callIO' = callIO \cup {"makeraw"}
  /\ \E r \in Outcome :
       IF r = "ok"
         THEN rawMode' = TRUE /\ pc' = "sh_size"
              /\ UNCHANGED <<bodyErr, closeCaller>>
         ELSE BodyReturns("err", session) /\ UNCHANGED rawMode
  /\ UNCHANGED <<mgrVars, doneVars, connVars, callVars, res, closeRes,
                 histVars, sigChan, sigQ, staleNotify, worker, workers, sigs,
                 panic>>
  /\ UNCHANGED <<dialErr, envVars>>

\* w, h, err := terminal.GetSize(fd)
ShGetSize ==
  /\ Alive /\ pc = "sh_size"
  /\ callIO' = callIO \cup {"getsize"}
  /\ \E r \in Outcome :
       IF r = "ok" THEN pc' = "sh_pty" /\ UNCHANGED bodyErr
                   ELSE ShellReturns("err")
  /\ UNCHANGED <<mgrVars, doneVars, connVars, callVars, res, closeCaller,
                 closeRes, histVars, shellVars, panic>>
  /\ UNCHANGED <<dialErr, envVars>>

\* s.session.RequestPty("xterm", h, w, modes)
ShRequestPty ==
  /\ Alive /\ pc = "sh_pty"
  /\ callIO' = callIO \cup {"requestpty"}
  /\ \E r \in Outcome :
       IF r = "ok" THEN pc' = "sh_start" /\ UNCHANGED bodyErr
                   ELSE ShellReturns("err")
  /\ UNCHANGED <<mgrVars, doneVars, connVars, callVars, res, closeCaller,
                 closeRes, histVars, shellVars, panic>>
  /\ UNCHANGED <<dialErr, envVars>>

\* s.session.Shell(); then sigChan is made and registered with signal.Notify
\* and the resize goroutine is spawned.
ShStart ==
  /\ Alive /\ pc = "sh_start"
  /\ callIO' = callIO \cup {"shell"}
  /\ \E r \in Outcome :
       IF r = "ok"
         THEN /\ started' = TRUE
              /\ sigChan' = "open" /\ sigQ' = 0
              /\ worker' = "ranging" /\ workers' = workers + 1
              /\ pc' = "sh_wait"
              /\ UNCHANGED bodyErr
         ELSE /\ ShellReturns("err")
              /\ UNCHANGED <<started, sigChan, sigQ, worker, workers>>
  /\ UNCHANGED <<client, session, doneVars, connVars, callVars, res,
                 closeCaller, closeRes, histVars, staleNotify, sigs, rawMode,
                 panic>>
  /\ UNCHANGED <<dialErr, envVars>>

\* err = s.session.Wait(); s.session = nil
ShWait ==
  /\ Alive /\ pc = "sh_wait"
  /\ callIO' = callIO \cup {"wait"}
  /\ session' = Nil
  /\ \E r \in Outcome : bodyErr' = r
  /\ pc' = "sh_closechan"
  /\ UNCHANGED <<client, started, doneVars, connVars, callVars, res,
                 closeCaller, closeRes, histVars, shellVars, panic>>
  /\ UNCHANGED <<dialErr, envVars>>

\* close(sigChan); the channel stays registered with the signal package.
ShCloseChan ==
  /\ Alive /\ pc = "sh_closechan"
  /\ sigChan' = "closed"
  /\ staleNotify' = TRUE
  /\ pc' = "sh_join"
  /\ UNCHANGED <<mgrVars, doneVars, connVars, callVars, res, closeCaller,
                 closeRes, bodyErr, callIO, histVars, sigQ, worker, workers,
                 sigs, rawMode, panic>>
  /\ UNCHANGED <<dialErr, envVars>>

\* wg.Wait(); return err
ShJoinNoWait ==
  /\ Alive /\ pc = "sh_join"
  /\ pc' = "sh_restore"
  /\ UNCHANGED <<mgrVars, doneVars, connVars, callVars, res, closeCaller,
                 closeRes, bodyErr, callIO, histVars, shellVars, panic>>
  /\ UNCHANGED <<dialErr, envVars>>

ShJoin ==
  /\ Alive /\ pc = "sh_join"
  /\ worker = "exited"
  /\ pc' = "sh_restore"
  /\ UNCHANGED <<mgrVars, doneVars, connVars, callVars, res, closeCaller,
                 closeRes, bodyErr, callIO, histVars, shellVars, panic>>
  /\ UNCHANGED <<dialErr, envVars>>

\* defer terminal.Restore(fd, state), followed by the deferred Close.
ShRestore ==
  /\ Alive /\ pc = "sh_restore"
  /\ callIO' = callIO \cup {"restore"}
  /\ rawMode' = FALSE
  /\ closeCaller' = "exec"
  /\ pc' = ClosePc(session, client)
  /\ UNCHANGED <<mgrVars, doneVars, connVars, callVars, res, closeRes,
                 bodyErr, histVars, sigChan, sigQ, staleNotify, worker,
                 workers, sigs, panic, dialErr, envIn, envScript, envI, envBlob,
          envLines, envOut, envErr, envPc>>
  /\ UNCHANGED <<dialErr, envVars>>

\* ---- the resize goroutine of Shell and the signal package ---------------

\* The OS delivers SIGWINCH: the signal package sends, without blocking, on
\* every channel registered with Notify; a send on a closed channel aborts.
SigWinch ==
  /\ Alive /\ sigChan # "none" /\ sigs < MaxSignals
  /\ sigs' = sigs + 1
  /\ IF staleNotify
       THEN panic' = "send on closed channel" /\ UNCHANGED sigQ
       ELSE sigQ' = 1 /\ UNCHANGED panic
  /\ UNCHANGED <<mgrVars, doneVars, connVars, pc, callVars, res, closeCaller,
                 closeRes, bodyErr, callIO, histVars, sigChan, staleNotify,
                 worker, workers, rawMode>>
  /\ UNCHANGED <<dialErr, envVars>>

\* for sig := range sigChan: a notification is received
WorkerRecv ==
  /\ Alive /\ worker = "ranging" /\ sigQ > 0
  /\ sigQ' = sigQ - 1
  /\ worker' = "handling"
  /\ UNCHANGED <<mgrVars, doneVars, connVars, pc, callVars, res, closeCaller,
                 closeRes, bodyErr, callIO, histVars, sigChan, staleNotify,
                 workers, sigs, rawMode, panic>>
  /\ UNCHANGED <<dialErr, envVars>>

\* w, h, _ = terminal.GetSize(fd); s.session.WindowChange(h, w)
WorkerForward ==
  /\ Alive /\ worker = "handling"
  /\ IF session = Nil
       THEN panic' = "nil session" /\ UNCHANGED worker
       ELSE worker' = "ranging" /\ UNCHANGED panic
  /\ UNCHANGED <<mgrVars, doneVars, connVars, pc, callVars, res, closeCaller,
                 closeRes, bodyErr, callIO, histVars, sigChan, sigQ,
                 staleNotify, workers, sigs, rawMode>>
  /\ UNCHANGED <<dialErr, envVars>>

\* the range loop ends on the closed, drained channel; defer wg.Done()
WorkerExit ==
  /\ Alive /\ worker = "ranging" /\ sigQ = 0 /\ sigChan = "closed"
  /\ worker' = "exited"
  /\ UNCHANGED <<mgrVars, doneVars, connVars, pc, callVars, res, closeCaller,
                 closeRes, bodyErr, callIO, histVars, sigChan, sigQ,
                 staleNotify, workers, sigs, rawMode, panic>>
  /\ UNCHANGED <<dialErr, envVars>>

\* ---- specification ------------------------------------------------------

Next ==
  \/ \E o \in DialOps : CallDial(o)
  \/ DialTcp
  \/ DialHandshake
  \/ DialSession
  \/ \E c \in Conns : WatcherStart(c)
  \/ \E c \in Conns : WatcherCloseConn(c)
  \/ \E c \in Conns : WatcherQuit(c)
  \/ \E c \in Conns : Cancel(c)
  \/ CallClose
  \/ CloseWait
  \/ CloseClient
  \/ CloseDefer
  \/ CallExecScript
  \/ ExecPipe
  \/ ExecShell
  \/ ExecWrite
  \/ ExecWait
  \/ CallShell
  \/ ShMakeRaw
  \/ ShGetSize
  \/ ShRequestPty
  \/ ShStart
  \/ ShWait
  \/ ShCloseChan
  \/ ShJoin
  \/ ShRestore
  \/ SigWinch
  \/ WorkerRecv
  \/ WorkerForward
  \/ WorkerExit

Spec == Init /\ [][Next]_vars

TypeOK ==
  /\ client \in {Nil} \cup Conns /\ session \in {Nil} \cup Conns
  /\ res \in {"none", "pending", "ok", "err", "notconnected"}
  /\ doneCloses \in 0..MaxCalls
  /\ sigQ \in 0..1

\* Fairness of the code's own steps: a goroutine that can run does run.  The
\* caller's decisions to call the API, the cancellation of a context and the
\* delivery of a signal are not forced.
Fairness ==
  /\ WF_vars(DialTcp) /\ WF_vars(DialHandshake) /\ WF_vars(DialSession)
  /\ \A c \in Conns : WF_vars(WatcherStart(c))
  /\ \A c \in Conns : WF_vars(WatcherCloseConn(c))
  /\ \A c \in Conns : WF_vars(WatcherQuit(c))
  /\ WF_vars(CloseWait) /\ WF_vars(CloseClient) /\ WF_vars(CloseDefer)
  /\ WF_vars(ExecPipe) /\ WF_vars(ExecShell) /\ WF_vars(ExecWrite)
  /\ WF_vars(ExecWait)
  /\ WF_vars(ShMakeRaw) /\ WF_vars(ShGetSize) /\ WF_vars(ShRequestPty)
  /\ WF_vars(ShStart) /\ WF_vars(ShWait) /\ WF_vars(ShCloseChan)
  /\ WF_vars(ShJoin) /\ WF_vars(ShRestore)
  /\ WF_vars(WorkerRecv) /\ WF_vars(WorkerForward) /\ WF_vars(WorkerExit)

FairSpec == Spec /\ Fairness

\* ---- claims -------------------------------------------------------------

\* C1: on a Manager with neither client nor session, a call of ExecScript or
\* Shell returns the "not connected" error in the same step, makes no
\* collaborator call, and leaves client, session, the done channel, the
\* connections and the terminal mode as they were.
C1_NotConnectedNoIO ==
  [][ (pc = "idle" /\ client = Nil /\ session = Nil
         /\ calls' = calls + 1 /\ op' \in ExecOps)
      => (/\ pc' = "idle" /\ res' = "notconnected" /\ callIO' = {}
          /\ client' = client /\ session' = session
          /\ done' = done /\ doneCloses' = doneCloses
          /\ conn' = conn /\ nextConn' = nextConn /\ tdCloses' = tdCloses
          /\ rawMode' = rawMode) ]_vars

C1_Witness ==
  /\ pc = "idle" /\ op \in ExecOps /\ res = "notconnected"
  /\ pre = "Unconnected" /\ callIO = {} /\ ~done

\* C2: once ExecScript or Shell has returned on a Connected Manager, every
\* later call of ExecScript or Shell (with no Dial/DialContext called in
\* between) returns the "not connected" error.
C2_ConsumedAfterExec ==
  (pc = "idle" /\ op \in ExecOps /\ preConsumed) => res = "notconnected"

\* C3: a Close called right after a Close returns no error, does not wait on
\* the session, does not close the connection again and does not close the
\* done channel a second time.
C3_CloseIdempotent ==
  (op = "Close" /\ prevOp = "Close")
    => /\ "wait" \notin callIO
       /\ "clientclose" \notin callIO
       /\ doneCloses <= 1
       /\ (pc = "idle" => res = "ok")

\* C4: when ExecScript or Shell has returned on a Connected Manager, the
\* connection's close was invoked and the Manager holds neither a session
\* nor a connection handle.
C4_TornDownOnReturn ==
  (pc = "idle" /\ op \in ExecOps /\ pre = "Connected")
    => (client = Nil /\ session = Nil /\ "clientclose" \in callIO)

C6_DoneClosedOnce ==
  /\ doneCloses <= 1
  /\ (done <=> doneCloses = 1)
  /\ ((closeRes # "none" /\ ~InClose) \/ closedOnce) => done

C6_Witness ==
  /\ pc = "idle" /\ op = "Close" /\ prevOp \in {"Close"} \cup ExecOps
  /\ execReturned /\ closeRes = "err" /\ doneCloses = 1

\* C7: once teardown (client.Close) has closed a connection, the watcher
\* never closes that connection.
C7_SingleCloser == \A c \in Conns : ~wAfterTd[c]

\* C8: when DialContext has returned an error after it spawned the watcher,
\* the done channel is closed, so that the watcher is not left blocked.
C8_WatcherReleased ==
  (pc = "idle" /\ op = "DialContext" /\ res = "err" /\ conn[cur] # "none"
     /\ "dial" \in callIO)
    => done

\* C9: on an Unconnected Manager, when the context is cancelled while
\* DialContext is blocked in the handshake, the raw connection is closed and
\* DialContext returns an error, leaving the Manager Unconnected.
C9_CancelUnblocksDial ==
  \A c \in Conns :
    (pc = "dial_hs" /\ cur = c /\ hang[c] /\ ctx[c] = "cancelled"
       /\ pre = "Unconnected")
    ~> (pc = "idle" /\ op = "DialContext" /\ res = "err" /\ conn[c] = "closed"
          /\ client = Nil /\ session = Nil)

\* C10 (as claimed): ExecScript/Shell does not return success when the Close
\* it ran on return failed.
C10_CloseErrorPropagated ==
  ~(pc = "idle" /\ op \in ExecOps /\ res = "ok" /\ closeRes = "err")

\* C10 (amended): ExecScript/Shell returns the error of its own body, whatever
\* the Close it ran on return returned.
C10_CloseErrorDropped ==
  (pc = "idle" /\ op \in ExecOps /\ pre = "Connected") => res = bodyErr

C10_Witness ==
  pc = "idle" /\ op \in ExecOps /\ res = "ok" /\ closeRes = "err"

\* C14: when getSession fails, dial has invoked the connection's close before
\* it returns, the error it returns names the session error (and the cleanup
\* error when the cleanup failed), and after a successful cleanup the Manager
\* holds neither a connection nor a session handle.
C14_SessionFailureCleanup ==
  (pc = "idle" /\ op \in DialOps /\ "newsession" \in callIO /\ res # "ok")
    => /\ res = "err"
       /\ "clientclose" \in callIO
       /\ \E c \in Conns : conn[c] = "closed" /\ tdCloses[c] > 0
       /\ "session" \in dialErr
       /\ (closeRes = "err") => ("cleanup" \in dialErr)
       /\ (closeRes = "ok") => (client = Nil /\ session = Nil /\ dialErr = {"session"})

C14_Witness ==
  /\ pc = "idle" /\ op \in DialOps /\ "newsession" \in callIO /\ res = "err"
  /\ closeRes = "err" /\ dialErr = {"session", "cleanup"} /\ client # Nil

\* C15: a first Close on a Manager holding a session and a connection that
\* waited for the session has also attempted the connection close by the time
\* it returns, whatever the wait returned.
C15_CloseStillClosesConn ==
  (pc = "idle" /\ op = "Close" /\ prevOp \in DialOps /\ pre = "Connected"
     /\ "wait" \in callIO)
    => "clientclose" \in callIO

\* C16: Shell spawns exactly one resize goroutine, and on every path where it
\* was spawned Shell is past wg.Wait (and returns) only when that goroutine
\* has terminated.
C16_WorkerJoined ==
  /\ workers <= 1
  /\ (op = "Shell" /\ pc \in {"sh_wait", "sh_closechan", "sh_join"}) => workers = 1
  /\ (op = "Shell" /\ workers = 1
        /\ (pc = "sh_restore" \/ InClose \/ pc = "idle"))
       => worker = "exited"

C16_Witness ==
  /\ pc = "idle" /\ op = "Shell" /\ res \in Outcome
  /\ workers = 1 /\ worker = "exited" /\ sigs = 1

\* C17: the signal package never delivers a resize notification into
\* sigChan once Shell has closed it.
C17_NoSendOnClosedQueue == panic # "send on closed channel"

\* C18: a session handle implies a connection handle.
C18_SessionImpliesClient == session # Nil => client # Nil

C18_Witness ==
  /\ pc = "idle" /\ session # Nil /\ client # Nil /\ closedOnce /\ nextConn = 2

\* C19: the resize goroutine never calls WindowChange through s.session after
\* the caller's goroutine has set s.session to nil.
C19_NoForwardAfterClear == panic # "nil session"

\* ---- AddEnv (env.go) -----------------------------------------------------
\* Strings are sequences of one-character strings; the backquote character,
\* which cannot be written in a string of this language, has a name.
Backtick == "backquote"

Letters == {"A", "b"}          \* the letters that occur in the inputs
Digits == {"1"}                \* the digits that occur in the inputs
\* The characters shellescape.Quote leaves alone: [\w@%+=:,./-]
SafeChars == Letters \cup Digits \cup {"_", "@", "%", "+", "=", ":", ",", ".", "/", "-"}

\* The inputs: declarations of every shape (empty, without "=", with an
\* empty name, with a digit first, with a blank in the name, well formed), and
\* NAME=VALUE declarations whose value is any string over quotes, blanks, "$",
\* backquotes, newlines and "=".
ShapeDecls ==
  { <<>>,
    <<"A">>,
    <<"A", " ", "A">>,
    <<"=", "A">>,
    <<"1", "A", "=", "b">>,
    <<"A", " ", "A", "=", "b">>,
    <<"A", "1", "=", "b">>,
    <<"_", "A", "=">> }
ValueChars == {"'", "\"", " ", "$", Backtick, "\n", "="}
EnvNames == {<<"A">>}
StringsOver(chars, n) == UNION {[1..k -> chars] : k \in 0..n}
Decls ==
  ShapeDecls
    \cup {n \o <<"=">> \o v : n \in EnvNames, v \in StringsOver(ValueChars, MaxValLen)}
DeclLists == UNION {[1..k -> Decls] : k \in 0..MaxDecls}
Scripts == {<<"e", "c">>}

\* Index of the first "=" of s, 0 when there is none.
FirstEq(s) ==
  IF \E i \in 1..Len(s) : s[i] = "="
    THEN CHOOSE i \in 1..Len(s) :
           s[i] = "=" /\ \A j \in 1..(i - 1) : s[j] # "="
    ELSE 0

\* Index of the last "=" of s, 0 when there is none.
LastEq(s) ==
  IF \E i \in 1..Len(s) : s[i] = "="
    THEN CHOOSE i \in 1..Len(s) :
           s[i] = "=" /\ \A j \in (i + 1)..Len(s) : s[j] # "="
    ELSE 0

\* strings.SplitN(kv, "=", 2)
SplitNLast(kv) ==
  IF LastEq(kv) = 0 THEN <<kv>>
  ELSE <<SubSeq(kv, 1, LastEq(kv) - 1), SubSeq(kv, LastEq(kv) + 1, Len(kv))>>

SplitN(kv) ==
  IF FirstEq(kv) = 0 THEN <<kv>>
  ELSE <<SubSeq(kv, 1, FirstEq(kv) - 1), SubSeq(kv, FirstEq(kv) + 1, Len(kv))>>

\* strings.Replace(s, "'", "'\"'\"'", -1)
RECURSIVE ReplaceQuotes(_)
ReplaceQuotes(s) ==
  IF s = <<>> THEN <<>>
  ELSE (IF Head(s) = "'" THEN <<"'", "\"", "'", "\"", "'">> ELSE <<Head(s)>>)
         \o ReplaceQuotes(Tail(s))

\* shellescape.Quote: '' for the empty string; the string itself when all its
\* characters are safe; otherwise the string in single quotes, each single
\* quote of it replaced by '"'"'.
Quote(s) ==
  IF Len(s) = 0 THEN <<"'", "'">>
  ELSE IF \E i \in 1..Len(s) : s[i] \notin SafeChars
    THEN <<"'">> \o ReplaceQuotes(s) \o <<"'">>
    ELSE s

ExportLit == <<";", " ", "e", "x", "p", "o", "r", "t", " ">>

\* fmt.Sprintf("%s=%s; export %s\n", kvs[0], shellescape.Quote(kvs[1]), kvs[0])
EnvLineUnquoted(kvs) ==
  kvs[1] \o <<"=">> \o kvs[2] \o ExportLit \o kvs[1] \o <<"\n">>

EnvLine(kvs) ==
  kvs[1] \o <<"=">> \o Quote(kvs[2]) \o ExportLit \o kvs[1] \o <<"\n">>

\* One iteration of `for _, kv := range env`: the validation error return,
\* the index-out-of-range abort on kvs[1] when kv holds no "=", or one more
\* line appended to envBlob.
AddEnvIter ==
  /\ envPc = "loop" /\ envI < Len(envIn)
  /\ LET kvs == SplitN(envIn[envI + 1]) IN
       IF kvs[1] # Quote(kvs[1])
         THEN /\ envPc' = "returned" /\ envOut' = <<>> /\ envErr' = "invalid"
              /\ UNCHANGED <<envI, envBlob, envLines>>
         ELSE IF Len(kvs) < 2
           THEN /\ envPc' = "panicked"
                /\ UNCHANGED <<envI, envBlob, envLines, envOut, envErr>>
           ELSE /\ envBlob' = envBlob \o EnvLine(kvs)
                /\ envLines' = Append(envLines, EnvLine(kvs))
                /\ envI' = envI + 1
                /\ UNCHANGED <<envPc, envOut, envErr>>
  /\ UNCHANGED <<envIn, envScript, sshVars>>

\* return fmt.Sprint(envBlob, script), nil
AddEnvReturn ==
  /\ envPc = "loop" /\ envI = Len(envIn)
  /\ envOut' = envBlob \o envScript
  /\ envErr' = "nil"
  /\ envPc' = "returned"
  /\ UNCHANGED <<envIn, envScript, envI, envBlob, envLines, sshVars>>

\* AddEnv is called with any script and any list of declarations.
EnvInit ==
  /\ MgrInit
  /\ envIn \in DeclLists /\ envScript \in Scripts
  /\ envI = 0 /\ envBlob = <<>> /\ envLines = <<>>
  /\ envOut = <<>> /\ envErr = "none" /\ envPc = "loop"

EnvNext == AddEnvIter \/ AddEnvReturn

EnvSpec == EnvInit /\ [][EnvNext]_vars

\* ---- claims about AddEnv ------------------------------------------------

\* The name and the value of a declaration: the text before, and after, its
\* first "=" (the whole declaration is the name when it holds no "=").
NameOf(kv) ==
  IF FirstEq(kv) = 0 THEN kv ELSE SubSeq(kv, 1, FirstEq(kv) - 1)

ValueOf(kv) == SubSeq(kv, FirstEq(kv) + 1, Len(kv))

\* ^[A-Za-z_][A-Za-z0-9_]*$
IsIdentifier(n) ==
  /\ Len(n) > 0
  /\ n[1] \in Letters \cup {"_"}
  /\ \A i \in 2..Len(n) : n[i] \in Letters \cup Digits \cup {"_"}

ValidDecl(kv) == FirstEq(kv) > 0 /\ IsIdentifier(NameOf(kv))

\* The line the claims expect for a declaration.
ExpectedLine(kv) ==
  NameOf(kv) \o <<"=">> \o Quote(ValueOf(kv)) \o ExportLit \o NameOf(kv) \o <<"\n">>

RECURSIVE ExpectedPrologue(_)
ExpectedPrologue(decls) ==
  IF decls = <<>> THEN <<>>
  ELSE ExpectedLine(Head(decls)) \o ExpectedPrologue(Tail(decls))

\* What a POSIX shell makes of one word: quote removal, with Interpreted for
\* a word in which the shell would interpret a character (expansion, field
\* splitting, an unterminated quote).
Interpreted == <<"interpreted">>
ShellMeta == {" ", "\n", "\t", "$", Backtick, "\\", ";", "&", "|", "<", ">", "(", ")",
              "*", "?", "[", "#", "~"}

RECURSIVE ShWord(_, _, _, _)
ShWord(s, i, mode, acc) ==
  IF i > Len(s)
    THEN IF mode = "bare" THEN acc ELSE Interpreted
    ELSE CASE mode = "bare" ->
                IF s[i] = "'" THEN ShWord(s, i + 1, "single", acc)
                ELSE IF s[i] = "\"" THEN ShWord(s, i + 1, "double", acc)
                ELSE IF s[i] \in ShellMeta THEN Interpreted
                ELSE ShWord(s, i + 1, "bare", Append(acc, s[i]))
           [] mode = "single" ->
                IF s[i] = "'" THEN ShWord(s, i + 1, "bare", acc)
                ELSE ShWord(s, i + 1, "single", Append(acc, s[i]))
           [] mode = "double" ->
                IF s[i] = "\"" THEN ShWord(s, i + 1, "bare", acc)
                ELSE IF s[i] \in {"$", Backtick, "\\"} THEN Interpreted
                ELSE ShWord(s, i + 1, "double", Append(acc, s[i]))

Unquote(s) == ShWord(s, 1, "bare", <<>>)

\* The escaped value of an emitted line: what stands between `NAME=` and
\* `; export NAME\n`.
EmittedValue(line, name) ==
  SubSeq(line, Len(name) + 2, Len(line) - Len(ExportLit) - Len(name) - 1)

\* C11: when AddEnv has returned for a list holding a declaration whose name
\* does not match ^[A-Za-z_][A-Za-z0-9_]*$, it returned the validation error
\* and the empty string.
C11_InvalidNameRejected ==
  (envPc = "returned"
     /\ \E i \in 1..Len(envIn) : ~IsIdentifier(NameOf(envIn[i])))
    => (envErr = "invalid" /\ envOut = <<>>)

\* C12: for a list of valid NAME=VALUE declarations AddEnv returns no error
\* and, in declaration order, one line `NAME=<escaped value>; export NAME` per
\* declaration (NAME before the first "=", the value after it) followed by the
\* script; for the empty list that is the script.
C12_PrologueLines ==
  (envPc = "returned" /\ \A i \in 1..Len(envIn) : ValidDecl(envIn[i]))
    => /\ envErr = "nil"
       /\ envOut = ExpectedPrologue(envIn) \o envScript
       /\ Len(envLines) = Len(envIn)
       /\ (envIn = <<>>) => (envOut = envScript)

C12_Witness ==
  /\ envPc = "returned" /\ envErr = "nil" /\ Len(envIn) = 2
  /\ envIn[1] # envIn[2] /\ envScript # <<>>
  /\ \A i \in 1..2 : ValidDecl(envIn[i])
  /\ \E i \in 1..2 : \E j \in 1..Len(ValueOf(envIn[i])) : ValueOf(envIn[i])[j] = "="

\* C13: the escaped value of every line AddEnv emitted for a declaration with
\* a valid name, read by POSIX shell quoting rules, is the declaration's value.
C13_ValueRoundTrip ==
  \A i \in 1..Len(envLines) :
    ValidDecl(envIn[i])
      => Unquote(EmittedValue(envLines[i], NameOf(envIn[i]))) = ValueOf(envIn[i])

C13_Witness ==
  /\ envPc = "returned" /\ envErr = "nil" /\ Len(envLines) = 2
  /\ ValueOf(envIn[1]) = <<"'">>
  /\ ValueOf(envIn[2]) \in {<<"$">>, <<Backtick>>, <<"\n">>, <<" ">>}

\* C20: AddEnv never aborts.
C20_AddEnvNeverPanics == envPc # "panicked"

====
